---- MODULE Spec2Model ----
(***************************************************************************)
(* The notebook 03-Features-Modeling.ipynb as a state machine.             *)
(*                                                                         *)
(* The program is the sequence of cells of the notebook; the state is the  *)
(* state of the kernel that executes them (its namespace, its execution    *)
(* counter, the dask clients it has created) together with what the        *)
(* notebook document records for each cell (its In[n] number and its       *)
(* output).  A cell is executed either by "Run All", which walks the       *)
(* cells in document order and stops at the first error, or interactively, *)
(* where any cell may be executed at any time and any number of times.     *)
(***************************************************************************)
EXTENDS Integers, Sequences, FiniteSets

VARIABLES mode,             \* "RunAll" | "Interactive": how the cells are run
          pc,               \* RunAll: index of the next cell to execute
          execution_count,  \* the kernel's execution counter
          ns,               \* the kernel namespace: name -> value, 0 = unbound
          clients,          \* every Client object constructed so far
          prompt,           \* cell -> In[n] number of its last execution, 0 = null
          outputs           \* cell -> output of its last execution

vars == <<mode, pc, execution_count, ns, clients, prompt, outputs>>

----------------------------------------------------------------------------
(* Bounds *)

\* most executions the kernel performs in one session
MaxExec == 5

\* largest value of the kernel's counter when the session starts
MaxPrior == 1

----------------------------------------------------------------------------
(* The source: statements and cells *)

\* the keyword arguments of the Client(...) call
n_workers == 2
threads_per_worker == 1
memory_limit == "1GB"

Import(name)  == [kind |-> "import", name |-> name]
Construct     == [kind |-> "construct", name |-> "client"]
Display       == [kind |-> "display", name |-> "client"]
Close         == [kind |-> "close", name |-> "client"]
Comment       == [kind |-> "comment", name |-> ""]
\* work handed to the client (client.submit / .compute); no cell contains one
Submit        == [kind |-> "submit", name |-> "client"]

Markdown      == [cell_type |-> "markdown", source |-> <<>>]
Code(src)     == [cell_type |-> "code", source |-> src]

\* variants of the notebook, each with one cell changed
CellsWith(i, src) ==
  LET base == << Markdown, Markdown, Markdown, Markdown,
                 Code(<< Import("ddf"), Import("da"), Import("Client"), Construct >>),
                 Code(<< Display >>),
                 Code(<< Comment >>),
                 Code(<< Close >>),
                 Markdown,
                 Code(<< >>) >>
  IN [base EXCEPT ![i] = Code(src)]

\* the placeholder cell filled in with an example that uses the client
CellsWithWork == CellsWith(7, << Comment, Submit >>)
\* the close cell emptied
CellsNoClose == CellsWith(8, << Comment >>)
\* the construction cell only imports; the client is never bound
CellsNoConstruct == CellsWith(5, << Import("ddf"), Import("da"), Import("Client") >>)
\* the trailing cell shows the client again
CellsTrailingUse == CellsWith(10, << Display >>)
\* the close cell builds a client of its own before closing
CellsCloseRebuilds == CellsWith(8, << Import("Client"), Construct, Close >>)

\* the cells of the notebook in document order
Cells ==
  << Markdown,                                      \* # Feature Engineering
     Markdown,                                      \* FIXME: image
     Markdown,                                      \* ## Rise of Python
     Markdown,                                      \* As an added bonus ...
     Code(<< Import("ddf"), Import("da"), Import("Client"), Construct >>),
     Code(<< Display >>),
     Code(<< Comment >>),                           \* # FIXME examples
     Code(<< Close >>),
     Markdown,                                      \* # Modeling
     Code(<< >>) >>

NCells == Len(Cells)

\* the execution_count fields recorded in the document, 0 = null
RecordedCount == << 0, 0, 0, 0, 2, 3, 4, 5, 0, 0 >>

\* the cluster summary recorded in the output of the display cell
RecordedRepr == [processes |-> 2, threads |-> 2, memory |-> 2000]

Names == {"ddf", "da", "Client", "client"}

----------------------------------------------------------------------------
(* dask.distributed.Client as the cells use it *)

\* dask.utils.parse_bytes on the memory limits a cell may pass, in MB
parse_bytes(s) ==
  CASE s = "1GB"   -> 1000
    [] s = "512MB" -> 512
    [] s = "2GB"   -> 2000
    [] OTHER       -> 0

RECURSIVE SumOver(_, _)
SumOver(ws, field) ==
  IF ws = << >> THEN 0 ELSE Head(ws)[field] + SumOver(Tail(ws), field)

\* a pool whose workers share one memory limit instead of having one each
NewClientSharedLimit(n, t, m) ==
  [ status  |-> "running",
    workers |-> [w \in 1..n |-> [nthreads |-> t, memory_limit |-> parse_bytes(m) \div n]],
    tasks   |-> 0,
    close_calls |-> 0,
    stale_uses  |-> 0 ]

\* Client(n_workers=n, threads_per_worker=t, memory_limit=m): a local cluster
\* of n worker processes, each with t threads and its own memory limit
NewClient(n, t, m) ==
  [ status  |-> "running",
    workers |-> [w \in 1..n |-> [nthreads |-> t, memory_limit |-> parse_bytes(m)]],
    tasks   |-> 0,          \* work submitted to the client
    close_calls |-> 0,      \* calls of close() on the client
    stale_uses  |-> 0 ]     \* uses of the client after it was closed

\* the cluster summary of the client's repr: processes, threads, memory
ClientRepr(c) ==
  [ processes |-> Len(c.workers),
    threads   |-> SumOver(c.workers, "nthreads"),
    memory    |-> SumOver(c.workers, "memory_limit") ]

NoRepr == [processes |-> 0, threads |-> 0, memory |-> 0]

\* client.close(): the scheduler and the workers the client started are
\* released; closing a closed client does nothing
CloseClient(c) ==
  [ c EXCEPT !.status = "closed",
             !.workers = << >>,
             !.close_calls = @ + 1,
             !.stale_uses = IF c.status = "closed" THEN @ + 1 ELSE @ ]

Touch(c) ==
  [ c EXCEPT !.stale_uses = IF c.status = "closed" THEN @ + 1 ELSE @ ]

----------------------------------------------------------------------------
(* The kernel: executing statements and cells *)

NoOutput   == [output_type |-> "none", ename |-> "", data |-> NoRepr]
Result(r)  == [output_type |-> "execute_result", ename |-> "", data |-> r]
Error(e)   == [output_type |-> "error", ename |-> e, data |-> NoRepr]

\* k = [ns, clients, out]: the kernel while a cell's source runs
Raise(k, e) == [k EXCEPT !.out = Error(e)]

ExecStmt(k, s) ==
  LET id == k.ns["client"] IN
  CASE s.kind = "import" ->
         [k EXCEPT !.ns[s.name] = 1]
    [] s.kind = "comment" -> k
    [] s.kind = "construct" ->
         IF k.ns["Client"] = 0 THEN Raise(k, "NameError")
         ELSE [k EXCEPT !.clients = Append(@, NewClient(n_workers, threads_per_worker, memory_limit)),
                        !.ns[s.name] = Len(k.clients) + 1]
    [] s.kind = "display" ->
         IF id = 0 THEN Raise(k, "NameError")
         ELSE [k EXCEPT !.out = Result(ClientRepr(k.clients[id])),
                        !.clients[id] = Touch(@)]
    [] s.kind = "close" ->
         IF id = 0 THEN Raise(k, "NameError")
         ELSE [k EXCEPT !.clients[id] = CloseClient(@)]
    [] s.kind = "submit" ->
         IF id = 0 THEN Raise(k, "NameError")
         ELSE IF k.clients[id].status = "closed" THEN Raise(k, "ValueError")
         ELSE [k EXCEPT !.clients[id].tasks = @ + 1]

\* the statements of a cell run in order; the first error ends the cell
RECURSIVE RunSource(_, _)
RunSource(k, src) ==
  IF src = << >> \/ k.out.output_type = "error" THEN k
  ELSE RunSource(ExecStmt(k, Head(src)), Tail(src))

IsCode(i)  == Cells[i].cell_type = "code"
IsEmpty(i) == Cells[i].source = << >>

\* executing cell i: a markdown cell is rendered, an empty code cell is not
\* sent to the kernel, any other code cell takes the next In[n] number
Execute(i) ==
  IF ~IsCode(i) THEN
       UNCHANGED <<execution_count, ns, clients, prompt, outputs>>
  ELSE IF IsEmpty(i) THEN
       /\ prompt' = [prompt EXCEPT ![i] = 0]
       /\ outputs' = [outputs EXCEPT ![i] = NoOutput]
       /\ UNCHANGED <<execution_count, ns, clients>>
  ELSE LET k == RunSource([ns |-> ns, clients |-> clients, out |-> NoOutput],
                          Cells[i].source)
       IN /\ execution_count' = execution_count + 1
          /\ prompt' = [prompt EXCEPT ![i] = execution_count + 1]
          /\ outputs' = [outputs EXCEPT ![i] = k.out]
          /\ ns' = k.ns
          /\ clients' = k.clients

Failed(i) == outputs[i].output_type = "error"

Init ==
  /\ mode \in {"RunAll", "Interactive"}
  /\ pc = IF mode = "RunAll" THEN 1 ELSE 0
  /\ execution_count \in 0..MaxPrior
  /\ ns = [n \in Names |-> 0]
  /\ clients = << >>
  /\ prompt = [i \in 1..NCells |-> 0]
  /\ outputs = [i \in 1..NCells |-> NoOutput]

\* "Run All": the next cell in document order; an error aborts the rest
RunAllStep ==
  /\ mode = "RunAll"
  /\ pc \in 1..NCells
  /\ Execute(pc)
  /\ pc' = IF outputs'[pc].output_type = "error" THEN NCells + 2 ELSE pc + 1
  /\ UNCHANGED mode

\* the user executes any one cell
InteractiveStep ==
  /\ mode = "Interactive"
  /\ execution_count < MaxExec
  /\ \E i \in 1..NCells : Execute(i)
  /\ UNCHANGED <<mode, pc>>

Next == RunAllStep \/ InteractiveStep

Spec == Init /\ [][Next]_vars

\* Run All proceeds by itself from cell to cell; the user need not act
FairSpec == Spec /\ WF_vars(RunAllStep)

----------------------------------------------------------------------------
(* Vocabulary of the properties *)

InOrder == mode = "RunAll"
Done    == mode = "RunAll" /\ pc = NCells + 1
Aborted == mode = "RunAll" /\ pc = NCells + 2

CodeCells == {i \in 1..NCells : IsCode(i) /\ ~IsEmpty(i)}

\* the cells whose source holds a statement of the kind
CellsOf(kind) ==
  {i \in 1..NCells : \E j \in 1..Len(Cells[i].source) : Cells[i].source[j].kind = kind}

ConstructCells == CellsOf("construct")
CloseCells     == CellsOf("close")
DisplayCells   == CellsOf("display")
UsingCells     == CloseCells \cup DisplayCells \cup CellsOf("submit")

\* the code cells strictly between a construction cell and a close cell
Between ==
  {i \in 1..NCells : /\ IsCode(i)
                     /\ \E a \in ConstructCells : a < i
                     /\ \E b \in CloseCells : i < b}

\* the code cells after every close cell
AfterClose == {i \in 1..NCells : IsCode(i) /\ \A b \in CloseCells : b < i}

ExecutedNow(i) == prompt'[i] # prompt[i]

Running == {c \in 1..Len(clients) : clients[c].status = "running"}

\* what a client is, apart from the bookkeeping of calls made on it
ClientState(c) == [status |-> c.status, workers |-> c.workers, tasks |-> c.tasks]
ClientStates == [c \in 1..Len(clients) |-> ClientState(clients[c])]

Released(c) == c.status = "closed" /\ c.workers = << >>

----------------------------------------------------------------------------
(* C1 *)

\* C1: in a run of the cells in document order the client is constructed
\* exactly once and closed exactly once, and no work is ever submitted to it.
C1_OnceAndIdle ==
  InOrder =>
    /\ Len(clients) <= 1
    /\ \A c \in 1..Len(clients) : clients[c].tasks = 0 /\ clients[c].close_calls <= 1
    /\ (\E a \in ConstructCells : pc > a /\ ~Aborted) => Len(clients) = 1
    /\ Done => Len(clients) = 1 /\ clients[1].close_calls = 1

C1_Witness ==
  Done /\ Len(clients) = 1 /\ clients[1].close_calls = 1 /\ clients[1].tasks = 0

----------------------------------------------------------------------------
(* C2 *)

\* C2 as stated: every code cell between the construction cell and the close
\* cell is an empty placeholder: it holds no statement and, once executed,
\* has produced nothing from the client.
C2_AsStated ==
  InOrder =>
  \A i \in Between :
    prompt[i] # 0 =>
      /\ \A j \in 1..Len(Cells[i].source) : Cells[i].source[j].kind = "comment"
      /\ outputs[i] = NoOutput

\* C2: only a construction cell or a close cell changes what a client is;
\* a cell between them leaves every client and the namespace as they were,
\* the placeholder cell produces no output, and the display cell produces
\* the summary of the client bound to the name.
C2_OnlyConstructAndCloseAct ==
  [][ /\ ClientStates' # ClientStates =>
           \E i \in ConstructCells \cup CloseCells : ExecutedNow(i)
      /\ \A i \in Between :
           ExecutedNow(i) =>
             /\ ClientStates' = ClientStates
             /\ ns' = ns
             /\ i \notin DisplayCells => outputs'[i] = NoOutput
             /\ (i \in DisplayCells /\ ns["client"] # 0) =>
                   outputs'[i] = Result(ClientRepr(clients[ns["client"]]))
    ]_vars

C2_Witness ==
  /\ InOrder
  /\ \A i \in Between : prompt[i] # 0
  /\ \E i \in Between \cap DisplayCells : outputs[i] = Result(RecordedRepr)
  /\ \E i \in Between \ DisplayCells : outputs[i] = NoOutput
  /\ Running = {1}

----------------------------------------------------------------------------
(* C3 *)

\* C3: every open client has 2 workers with 1 thread and 1 GB each, so its
\* summary is 2 processes, 2 threads and 2 GB, as recorded in the output of
\* the display cell; the summary a display cell shows is that of an open
\* client or of a closed one, never anything else.
C3_FixedPool ==
  /\ \A c \in Running :
       /\ Len(clients[c].workers) = 2
       /\ \A w \in 1..2 : clients[c].workers[w] = [nthreads |-> 1, memory_limit |-> 1000]
       /\ ClientRepr(clients[c]) = [processes |-> 2, threads |-> 2 * 1, memory |-> 2 * 1000]
       /\ ClientRepr(clients[c]) = RecordedRepr
  /\ \A i \in DisplayCells :
       outputs[i].output_type = "execute_result" =>
         /\ outputs[i].data \in {RecordedRepr, NoRepr}
         /\ InOrder => outputs[i].data = RecordedRepr

C3_Witness ==
  /\ Running # {}
  /\ \E i \in DisplayCells : outputs[i] = Result(RecordedRepr)
  /\ execution_count >= 3

----------------------------------------------------------------------------
(* C4 *)

AllExecuted == \A i \in CodeCells : prompt[i] # 0
NoError     == \A i \in 1..NCells : ~Failed(i)

\* C4: a run in document order never shows an error and is never aborted,
\* and it ends with every code cell that has a source executed.
C4_NoErrorInOrder ==
  /\ [](InOrder => NoError /\ ~Aborted)
  /\ [](Done => AllExecuted)
  /\ (InOrder ~> (Done /\ AllExecuted /\ NoError))

C4_Witness ==
  Done /\ AllExecuted /\ NoError /\ execution_count >= Cardinality(CodeCells)

----------------------------------------------------------------------------
(* C5 *)

AllReleased == \A c \in 1..Len(clients) : Released(clients[c])

\* C5: in a run in document order a constructed client is eventually
\* closed, and when the run has ended no client is open and no worker is
\* allocated.
C5_EventuallyReleased ==
  /\ ((InOrder /\ Running # {}) ~> (Done /\ Running = {} /\ AllReleased))
  /\ [](Done => clients # << >> /\ AllReleased)

C5_Witness ==
  Done /\ clients # << >> /\ AllReleased /\ \E b \in CloseCells : prompt[b] # 0

----------------------------------------------------------------------------
(* C6 *)

\* C6: in a run in document order the In[n] numbers grow with the position
\* of the cell, a cell that uses the name client is numbered only after a
\* cell that binds it, and a run whose first code cell gets the recorded
\* number ends with exactly the recorded numbers 2, 3, 4, 5.
C6_BoundBeforeUse ==
  InOrder =>
    /\ \A i, j \in CodeCells :
         (i < j /\ prompt[i] # 0 /\ prompt[j] # 0) => prompt[i] < prompt[j]
    /\ \A i \in UsingCells :
         prompt[i] # 0 =>
           \E a \in ConstructCells : prompt[a] # 0 /\ prompt[a] < prompt[i] /\ a < i
    /\ \A i, j \in 1..NCells :
         (i < j /\ RecordedCount[i] # 0 /\ RecordedCount[j] # 0) =>
           RecordedCount[i] < RecordedCount[j]
    /\ (Done /\ \E a \in ConstructCells : prompt[a] = RecordedCount[a]) =>
         \A i \in 1..NCells : prompt[i] = RecordedCount[i]

C6_Witness ==
  Done /\ \A i \in 1..NCells : prompt[i] = RecordedCount[i]

----------------------------------------------------------------------------
(* C7 *)

\* C7: in a run in document order no client is used after it was closed or
\* closed twice, and the cells after the close cell execute nothing: they
\* change neither a client, nor the namespace, nor the kernel's counter.
C7_NoUseAfterClose ==
  /\ [](InOrder =>
          \A c \in 1..Len(clients) :
            clients[c].stale_uses = 0 /\ clients[c].close_calls <= 1)
  /\ [][ (InOrder /\ pc \in AfterClose) =>
             /\ clients' = clients
             /\ ns' = ns
             /\ execution_count' = execution_count
             /\ prompt'[pc] = 0
        ]_vars

C7_Witness ==
  /\ Done
  /\ AfterClose # {}
  /\ \A i \in AfterClose : prompt[i] = 0 /\ outputs[i] = NoOutput
  /\ \E c \in 1..Len(clients) : clients[c].status = "closed" /\ clients[c].stale_uses = 0

----------------------------------------------------------------------------
(* C8 *)

\* C8: when cells are executed in any order, executing a display or close
\* cell while the name client is unbound ends in a NameError and leaves
\* the kernel's clients alone, and executing the construction cell while a
\* client is open adds one more open client, leaves the earlier ones open
\* and binds the name to the newest.
C8_OrderMatters ==
  [][ mode = "Interactive" =>
        /\ \A i \in DisplayCells \cup CloseCells :
             (ExecutedNow(i) /\ ns["client"] = 0) =>
               outputs'[i] = Error("NameError") /\ clients' = clients /\ ns' = ns
        /\ \A a \in ConstructCells :
             (ExecutedNow(a) /\ Running # {}) =>
               /\ Len(clients') = Len(clients) + 1
               /\ Running' = Running \cup {Len(clients')}
               /\ \A c \in 1..Len(clients) : clients'[c] = clients[c]
               /\ ns'["client"] = Len(clients')
    ]_vars

C8_Witness ==
  /\ mode = "Interactive"
  /\ \E i \in DisplayCells : outputs[i] = Error("NameError")
  /\ \E i \in CloseCells : outputs[i] = Error("NameError")
  /\ Cardinality(Running) >= 2
  /\ ns["client"] = Len(clients)

====
